---------------------------- MODULE Spec2Model ----------------------------
(***************************************************************************)
(* Model of the Drive -> JSON -> PDF pipeline of dh-pdf-generator:         *)
(*   scripts/validate-json.js           getNested, validateJsonSchema      *)
(*   scripts/auto-generate-from-drive.js waitForStableFile, getFileHash,   *)
(*                                      listJsonFiles, downloadFile,       *)
(*                                      dedupeDriveJsonFiles, processFiles *)
(*   scripts/generate-report.js         generatePDF (outcome only)         *)
(*                                                                         *)
(* Three specifications share the variables:                               *)
(*   SpecDownload  one top-level call of downloadFile, step by step        *)
(*   SpecDedupe    listJsonFiles and dedupeDriveJsonFiles alone            *)
(*   Spec          one pass of processFiles                                *)
(***************************************************************************)
EXTENDS Integers, Sequences, FiniteSets, TLC

VARIABLES
  dl,            \* the running downloadFile call (see DLStart)
  remoteContent, \* SpecDownload: content of the object being downloaded
  objs,          \* the data folder on Drive: sequence of remote objects, in listing order
  local,         \* the local data directory: name -> [content, mtime]
  force,         \* process.env.FORCE_UPLOAD === "true"
  trashed,       \* ids of the objects that received {trashed: true}
  pc,            \* position of processFiles
  driveFiles,    \* processFiles: result of listJsonFiles (object ids)
  localFiles,    \* processFiles: local-only names
  dedupeQueue,   \* dedupeDriveJsonFiles: duplicates still to trash
  files,         \* processFiles: the list the for-loop walks
  idx,           \* index of the loop in files (1-based)
  pdfPath,       \* processFiles: pdfPath of the current object ("null" or "pdf")
  skippedFiles,  \* processFiles: skippedFiles
  uploadedPDFs,  \* processFiles: uploadedPDFs
  errors,        \* processFiles: errors
  summary,       \* number of summaries printed
  decisions,     \* history: per remote object reached, the branch taken and what it saw
  calls,         \* history: invocations of downloadFile, generatePDF and the uploaders
  run,           \* the run of processFiles: which pass it is, local at its start, env
  val,           \* one invocation of validateJsonSchema and of getNested (see ValInput)
  wait,          \* one invocation of waitForStableFile (see WaitInput)
  preview,       \* the live-preview watcher (see PreviewStart)
  manifest       \* data/manifest.json and the updateManifest calls (see ManifestStart)

vars == <<dl, remoteContent, objs, local, force, trashed, pc,
          driveFiles, localFiles, dedupeQueue, files, idx, pdfPath, skippedFiles,
          uploadedPDFs, errors, summary, decisions, calls, run, val, wait,
          preview, manifest>>

\* the state of processFiles alone
passState == <<objs, local, force, trashed, pc, driveFiles,
               localFiles, dedupeQueue, files, idx, pdfPath, skippedFiles,
               uploadedPDFs, errors, summary, decisions, calls>>

passVars == <<objs, local, force, trashed, pc, driveFiles,
              localFiles, dedupeQueue, files, idx, pdfPath, skippedFiles,
              uploadedPDFs, errors, summary, decisions, calls, run, val, wait,
              preview, manifest>>

(***************************************************************************)
(* JSON values.  A value is a record tagged by t; a string is the sequence *)
(* of its characters, so that the empty string and the date pattern are    *)
(* decided on the characters.                                              *)
(***************************************************************************)
Undefined == [t |-> "undefined"]
Null      == [t |-> "null"]
Str(s)    == [t |-> "string", s |-> s]
Num(n)    == [t |-> "number", n |-> n]
Bool(b)   == [t |-> "boolean", b |-> b]
Arr(a)    == [t |-> "array", a |-> a]
Obj(o)    == [t |-> "object", o |-> o]
Throws    == [t |-> "TypeError"]

IsArray(v) == v.t = "array"

\* JavaScript truthiness of a value (the !obj and current && ... tests)
Truthy(v) ==
  CASE v.t = "undefined" -> FALSE
    [] v.t = "null"      -> FALSE
    [] v.t = "string"    -> v.s # <<>>
    [] v.t = "number"    -> v.n # 0
    [] v.t = "boolean"   -> v.b
    [] OTHER             -> TRUE

\* IsMissing with a fault injected: !value
IsMissingFalsy(v) == ~Truthy(v)

\* value === undefined || value === null || value === ""
IsMissing(v) ==
  \/ v.t = "undefined"
  \/ v.t = "null"
  \/ (v.t = "string" /\ v.s = <<>>)

\* value === undefined || value === null
IsAbsent(v) == v.t = "undefined" \/ v.t = "null"

(***************************************************************************)
(* Paths.  A path string is kept split at "." into its parts; a part is    *)
(* its key and whether it ends with "[]".  The empty sequence stands for   *)
(* the empty path string.                                                  *)
(***************************************************************************)
Key(k) == [key |-> k, brackets |-> FALSE]
All(k) == [key |-> k, brackets |-> TRUE]

\* current[key] on a JavaScript value: a TypeError on null and undefined,
\* the property of an object, undefined on anything else
Prop(current, key) ==
  CASE current.t \in {"undefined", "null"} -> Throws
    [] current.t = "object" ->
         IF key \in DOMAIN current.o THEN current.o[key] ELSE Undefined
    [] OTHER -> Undefined

\* parseInt(part, 10) for the parts used as indices; -1 stands for NaN
\* (both fail the index test of line 18)
NumericKeys == ("0" :> 0) @@ ("1" :> 1) @@ ("2" :> 2)

ParseInt(key) == IF key \in DOMAIN NumericKeys THEN NumericKeys[key] ELSE -1

\* the for-loop of getNested over parts[i..]
RECURSIVE getNestedFrom(_, _, _)
getNestedFrom(current, parts, i) ==
  IF i > Len(parts) THEN current
  ELSE LET part == parts[i] IN
    IF part.brackets THEN
      LET next == Prop(current, part.key) IN
        IF next.t = "TypeError" THEN Throws
        ELSE IF ~IsArray(next) THEN Undefined
        ELSE getNestedFrom(next, parts, i + 1)
    ELSE IF IsArray(current) THEN
      LET index == ParseInt(part.key) IN
        IF index < 0 \/ index >= Len(current.a) THEN Undefined
        ELSE getNestedFrom(current.a[index + 1], parts, i + 1)
    ELSE IF Truthy(current) /\ current.t = "object" THEN
      getNestedFrom(Prop(current, part.key), parts, i + 1)
    ELSE Undefined

getNested(obj, path) ==
  IF ~Truthy(obj) \/ path = <<>> THEN Undefined
  ELSE getNestedFrom(obj, path, 1)

tier1Required ==
  << <<Key("patientFirstName")>>, <<Key("patientLastName")>>,
     <<Key("patientDateOfBirth")>>, <<Key("patientEmail")>>,
     <<Key("reportDate")>>, <<Key("diagnosisSummary")>>, <<Key("tumors")>>,
     <<Key("whatThisMeans")>>, <<Key("testsCompleted")>>,
     <<Key("testsNeeded")>>, <<Key("treatmentTeam")>> >>

tier2Recommended ==
  << <<Key("diagnosisDate")>>, <<Key("resources")>>, <<Key("contactInfo")>>,
     <<Key("contactInfo"), Key("phone")>>, <<Key("contactInfo"), Key("email")>> >>

tier3StructuralRequired ==
  << <<All("tumors"), Key("name")>>, <<All("tumors"), Key("location")>>,
     <<All("tumors"), Key("stage")>>, <<All("tumors"), Key("grade")>>,
     <<All("tumors"), Key("hormoneReceptorStatus")>>,
     <<All("tumors"), Key("her2Status")>>,
     <<Key("whatThisMeans"), Key("goodNews")>>,
     <<Key("whatThisMeans"), Key("newOptions")>>,
     <<Key("whatThisMeans"), Key("treatmentFocus")>>,
     <<All("testsCompleted"), Key("name")>>,
     <<All("testsCompleted"), Key("date")>>,
     <<All("testsCompleted"), Key("explanation")>>,
     <<All("testsNeeded"), Key("name")>>, <<All("testsNeeded"), Key("date")>>,
     <<All("testsNeeded"), Key("explanation")>>,
     <<Key("treatmentTeam"), Key("oncologist")>>,
     <<Key("treatmentTeam"), Key("surgeon")>>,
     <<Key("treatmentTeam"), Key("radiologist")>> >>

\* field.includes("[]")
IncludesBrackets(field) == \E i \in 1..Len(field) : field[i].brackets

\* const [arrayKey, subPath] = field.split("[].")
FirstBrackets(field) ==
  CHOOSE i \in 1..Len(field) :
    field[i].brackets /\ \A j \in 1..(i - 1) : ~field[j].brackets

ArrayKeyOf(field) ==
  LET i == FirstBrackets(field) IN
    [j \in 1..i |-> IF j = i THEN Key(field[j].key) ELSE field[j]]

SubPathOf(field) ==
  LET i == FirstBrackets(field) IN
    [j \in 1..(Len(field) - i) |-> field[i + j]]

Digits == {"0", "1", "2", "3", "4", "5", "6", "7", "8", "9"}

\* /^\d{4}-\d{2}-\d{2}$/ on the characters of a string
MatchesDate(s) ==
  /\ Len(s) = 10
  /\ \A i \in {1, 2, 3, 4, 6, 7, 9, 10} : s[i] \in Digits
  /\ s[5] = "-"
  /\ s[8] = "-"

\* regex.test(dob): dob is converted to a string first; of the values that
\* are not strings only a one-element array can convert to a matching one
RECURSIVE DateTest(_)
DateTest(v) ==
  CASE v.t = "string" -> MatchesDate(v.s)
    [] v.t = "array"  -> Len(v.a) = 1 /\ DateTest(v.a[1])
    [] OTHER          -> FALSE

\* Tier 1: the Required paths that are reported
Tier1Errors(jsonData) ==
  {i \in 1..Len(tier1Required) : IsMissing(getNested(jsonData, tier1Required[i]))}

\* Tier 3: whether field i is reported at least once
Tier3Error(jsonData, field) ==
  IF IncludesBrackets(field) THEN
    LET array == getNested(jsonData, ArrayKeyOf(field)) IN
      IF ~IsArray(array) \/ Len(array.a) = 0 THEN TRUE
      ELSE \E i \in 1..Len(array.a) :
             IsMissing(getNested(array.a[i], SubPathOf(field)))
  ELSE IsAbsent(getNested(jsonData, field))

Tier3Errors(jsonData) ==
  {i \in 1..Len(tier3StructuralRequired) :
     Tier3Error(jsonData, tier3StructuralRequired[i])}

\* the format check of patientDateOfBirth
DateError(jsonData) ==
  LET dob == getNested(jsonData, <<Key("patientDateOfBirth")>>) IN
    ~IsMissing(dob) /\ ~DateTest(dob)

\* validateJsonSchema with a fault injected: a Recommended field that is
\* missing sets hasErrors too
validateJsonSchemaStrict(jsonData) ==
  ~(\/ Tier1Errors(jsonData) # {}
    \/ Tier3Errors(jsonData) # {}
    \/ \E i \in 1..Len(tier2Recommended) :
         IsMissing(getNested(jsonData, tier2Recommended[i]))
    \/ DateError(jsonData))

\* validateJsonSchema: TRUE unless hasErrors was set
validateJsonSchema(jsonData) ==
  ~(\/ Tier1Errors(jsonData) # {}
    \/ Tier3Errors(jsonData) # {}
    \/ DateError(jsonData))

(***************************************************************************)
(* What validateJsonSchema reports (console.error / console.warn), in the  *)
(* order it reports it.  A finding names its tier, the entry of the tier   *)
(* list and, for an element of an array, the element's index i (-1         *)
(* otherwise).                                                             *)
(***************************************************************************)
Finding(tier, field, index) == [tier |-> tier, field |-> field, index |-> index]

\* lines 78-84 and 113-118: the entries of a list whose value is missing
FlatFindings(jsonData, tier, fields) ==
  LET Reported(field) == IsMissing(getNested(jsonData, field))
      hits == SelectSeq(fields, Reported)
  IN  [k \in 1..Len(hits) |-> Finding(tier, hits[k], -1)]

\* ElementFindings with a fault injected: the loop stops at the first
\* element it reports
ElementFindingsFirstOnly(array, field) ==
  LET Fails(i) == IsMissing(getNested(array.a[i], SubPathOf(field)))
      hits == SelectSeq([i \in 1..Len(array.a) |-> i], Fails)
  IN  [k \in 1..(IF hits = <<>> THEN 0 ELSE 1) |->
         Finding("structural", field, hits[k] - 1)]

\* lines 96-102: the elements of the array whose subPath is missing
ElementFindings(array, field) ==
  LET Fails(i) == IsMissing(getNested(array.a[i], SubPathOf(field)))
      hits == SelectSeq([i \in 1..Len(array.a) |-> i], Fails)
  IN  [k \in 1..Len(hits) |-> Finding("structural", field, hits[k] - 1)]

\* lines 88-109: one entry of tier3StructuralRequired
StructuralFindings(jsonData, field) ==
  IF IncludesBrackets(field) THEN
    LET array == getNested(jsonData, ArrayKeyOf(field)) IN
      IF ~IsArray(array) \/ Len(array.a) = 0
      THEN <<Finding("structural", field, -1)>>
      ELSE ElementFindings(array, field)
  ELSE IF IsAbsent(getNested(jsonData, field))
       THEN <<Finding("structural", field, -1)>>
       ELSE <<>>

\* lines 87-110: the loop over tier3StructuralRequired from entry i on
RECURSIVE Tier3FindingsFrom(_, _)
Tier3FindingsFrom(jsonData, i) ==
  IF i > Len(tier3StructuralRequired) THEN <<>>
  ELSE StructuralFindings(jsonData, tier3StructuralRequired[i])
       \o Tier3FindingsFrom(jsonData, i + 1)

\* lines 121-127
DateFindings(jsonData) ==
  IF DateError(jsonData)
  THEN <<Finding("format", <<Key("patientDateOfBirth")>>, -1)>>
  ELSE <<>>

\* Findings with a fault injected: the tiers in the order of their numbers
FindingsByTierNumber(jsonData) ==
  FlatFindings(jsonData, "required", tier1Required)
  \o FlatFindings(jsonData, "recommended", tier2Recommended)
  \o Tier3FindingsFrom(jsonData, 1)
  \o DateFindings(jsonData)

\* everything one call reports: tier 1, tier 3, tier 2, the date format
Findings(jsonData) ==
  FlatFindings(jsonData, "required", tier1Required)
  \o Tier3FindingsFrom(jsonData, 1)
  \o FlatFindings(jsonData, "recommended", tier2Recommended)
  \o DateFindings(jsonData)

\* RecordAfter with a fault injected: the call fills in a default
RecordAfterDefaults(jsonData) ==
  IF jsonData.t = "object"
  THEN Obj([k \in (DOMAIN jsonData.o) \cup {"diagnosisDate"} |->
              IF k = "diagnosisDate" THEN Str(<<"x">>) ELSE jsonData.o[k]])
  ELSE jsonData

\* what the caller's record holds after validateJsonSchema or getNested
\* returned: both only read through obj, jsonData, current and array[i];
\* the one assignment target in either is the local variable current
RecordAfter(jsonData) == jsonData

(***************************************************************************)
(* Files.  The bytes of a file are named by a token: "absent" (no file),   *)
(* "empty" (zero bytes), "corrupt" (bytes that are not JSON) or one of the *)
(* sample documents.                                                       *)
(***************************************************************************)
X == Str(<<"x">>)

Tumor ==
  Obj([name |-> X, location |-> X, stage |-> X, grade |-> X,
       hormoneReceptorStatus |-> X, her2Status |-> X])

Test == Obj([name |-> X, date |-> X, explanation |-> X])

ValidRecord ==
  Obj([patientFirstName |-> X, patientLastName |-> X,
       patientDateOfBirth |-> Str(<<"1", "9", "8", "0", "-", "0", "1", "-", "3", "1">>),
       patientEmail |-> X, reportDate |-> X, diagnosisSummary |-> X,
       tumors |-> Arr(<<Tumor>>),
       whatThisMeans |-> Obj([goodNews |-> X, newOptions |-> X, treatmentFocus |-> X]),
       testsCompleted |-> Arr(<<Test>>), testsNeeded |-> Arr(<<Test>>),
       treatmentTeam |-> Obj([oncologist |-> X, surgeon |-> X, radiologist |-> X])])

\* the sample documents: a complete record, one whose patientFirstName is
\* the empty string (Required tier), one whose tumors array is empty
\* (Structural tier)
Documents ==
  [valid     |-> ValidRecord,
   noName    |-> Obj([ValidRecord.o EXCEPT !.patientFirstName = Str(<<>>)]),
   noTumors  |-> Obj([ValidRecord.o EXCEPT !.tumors = Arr(<<>>)])]

JsonContents == DOMAIN Documents

\* JSON.parse(fs.readFileSync(path, 'utf8')): throws on a missing file and on
\* bytes that are not JSON (the empty file included)
Parses(content) == content \in JsonContents

Parse(content) == IF Parses(content) THEN Documents[content] ELSE Throws

\* fs.statSync(path).size
Size(content) ==
  CASE content = "empty"   -> 0
    [] content = "corrupt" -> 1
    [] OTHER               -> 2

\* md5 of the bytes: distinct bytes, distinct digests
Md5 ==
  [empty |-> "d41d8c", corrupt |-> "0bad0b", valid |-> "a11a11",
   noName |-> "b22b22", noTumors |-> "c33c33"]

\* getFileHash: the digest, or null when the file cannot be read
getFileHash(content) == IF content = "absent" THEN "null" ELSE Md5[content]

(***************************************************************************)
(* waitForStableFile(filePath, interval = 150, retries = 25)               *)
(***************************************************************************)
retries == 25

\* StableFrom with a fault injected: an unchanged size of 0 counts as stable
RECURSIVE StableFromAnySize(_, _, _)
StableFromAnySize(sizes, i, prevSize) ==
  IF i > retries THEN FALSE
  ELSE IF sizes[i] = prevSize THEN TRUE
  ELSE StableFromAnySize(sizes, i + 1, sizes[i])

\* the loop from poll i on; sizes[i] is what the i-th statSync reports
RECURSIVE StableFrom(_, _, _)
StableFrom(sizes, i, prevSize) ==
  IF i > retries THEN FALSE                       \* throw: never stabilized
  ELSE IF sizes[i] > 0 /\ sizes[i] = prevSize THEN TRUE
  ELSE StableFrom(sizes, i + 1, sizes[i])

waitForStableFile(sizes) == StableFrom(sizes, 1, 0)

\* after 'finish' all bytes are written: every poll sees the final size
PollSizes(content) == [i \in 1..retries |-> Size(content)]


(***************************************************************************)
(* downloadFile(drive, fileId, destPath, attempt = 1)                      *)
(*                                                                         *)
(* A call is a record d:                                                   *)
(*   stack    the nested invocations, outermost first; a frame is its      *)
(*            attempt number and where it stands:                          *)
(*              "start"            entered, nothing done yet               *)
(*              "streaming"        piped, waiting for 'finish' or 'error'  *)
(*              "stabilizing"      in the 'finish' handler, polling        *)
(*              "validating"       about to JSON.parse the destination     *)
(*              "awaitParseRetry"  awaiting the nested call of line 214    *)
(*              "catch"            the awaited promise rejected (line 227) *)
(*              "awaitCatchRetry"  returned the nested call of line 233    *)
(*              "hung"             neither 'finish' nor 'error' will come  *)
(*   dest     content of destPath                                          *)
(*   result   "running", "Done" (resolved) or "Failed" (rejected)          *)
(*   streams  history: streams piped into destPath by this call            *)
(*   last     history: how far the most recent attempt got                 *)
(***************************************************************************)
MAX_RETRIES == 3

NoProgress == [streamed |-> FALSE, stable |-> FALSE, parsed |-> FALSE]

DLStart(destContent) ==
  [stack |-> <<[attempt |-> 1, at |-> "start"]>>, dest |-> destContent,
   result |-> "running", streams |-> 0, last |-> NoProgress]

DLIdle ==
  [stack |-> <<>>, dest |-> "absent", result |-> "idle", streams |-> 0,
   last |-> NoProgress]

Top(d) == d.stack[Len(d.stack)]

At(d, pos) == d.result = "running" /\ d.stack # <<>> /\ Top(d).at = pos

SetTop(d, pos) == [d.stack EXCEPT ![Len(d.stack)].at = pos]

\* downloadFile(..., attempt + 1) is entered while the caller waits at pos
Recurse(d, pos) ==
  Append(SetTop(d, pos), [attempt |-> Top(d).attempt + 1, at |-> "start"])

\* The innermost invocation settles (ok: resolved, otherwise rejected) and
\* its callers react: line 214 resolves with a resolved nested call and
\* throws inside the handler with a rejected one, which line 221 turns into
\* a rejection of the caller's own promise; line 233 passes the outcome on.
RECURSIVE Settle(_, _)
Settle(d, ok) ==
  LET rest == SubSeq(d.stack, 1, Len(d.stack) - 1) IN
    IF rest = <<>> THEN
      [d EXCEPT !.stack = <<>>, !.result = IF ok THEN "Done" ELSE "Failed"]
    ELSE IF rest[Len(rest)].at = "awaitParseRetry" /\ ~ok THEN
      [d EXCEPT !.stack = [rest EXCEPT ![Len(rest)].at = "catch"]]
    ELSE Settle([d EXCEPT !.stack = rest], ok)

\* what can reach the destination when the stream finishes: the object's
\* bytes, or bytes damaged or lost on the way
Written(content) == {content, "corrupt", "empty"}

\* lines 187-196: createWriteStream truncates the destination; files.get
\* either rejects or hands over the stream that is piped into it
OpenSucc(d) ==
  IF ~At(d, "start") THEN {}
  ELSE LET e == [d EXCEPT !.dest = "empty", !.last = NoProgress] IN
    { [e EXCEPT !.stack = SetTop(d, "catch")],
      [e EXCEPT !.stack = SetTop(d, "streaming"), !.streams = d.streams + 1] }

\* lines 196-200 and 224: the pipe ends with 'finish', with 'error' on the
\* write stream, or with an error of the read stream, which nothing listens to
StreamSucc(d, content) ==
  IF ~At(d, "streaming") THEN {}
  ELSE
    { [d EXCEPT !.stack = SetTop(d, "stabilizing"), !.dest = w,
                !.last.streamed = TRUE] : w \in Written(content) }
    \cup { [d EXCEPT !.stack = SetTop(d, "catch"), !.dest = w] :
             w \in {"corrupt", "empty"} }
    \cup { [d EXCEPT !.stack = SetTop(d, "hung"), !.dest = w] :
             w \in {"corrupt", "empty"} }

\* line 203: await waitForStableFile(destPath); its throw is the reject of
\* line 221
StabilizeSucc(d) ==
  IF ~At(d, "stabilizing") THEN {}
  ELSE IF waitForStableFile(PollSizes(d.dest)) THEN
    { [d EXCEPT !.stack = SetTop(d, "validating"), !.last.stable = TRUE] }
  ELSE { [d EXCEPT !.stack = SetTop(d, "catch")] }

\* ValidateSucc with a fault injected: resolve() without looking at the parse
ValidateSuccUnchecked(d) ==
  IF ~At(d, "validating") THEN {}
  ELSE { Settle([d EXCEPT !.last.parsed = Parses(d.dest)], TRUE) }

\* lines 206-219: parse the destination; resolve, retry or reject
ValidateSucc(d) ==
  IF ~At(d, "validating") THEN {}
  ELSE IF Parses(d.dest) THEN { Settle([d EXCEPT !.last.parsed = TRUE], TRUE) }
  ELSE IF Top(d).attempt < MAX_RETRIES THEN
    { [d EXCEPT !.stack = Recurse(d, "awaitParseRetry")] }
  ELSE { [d EXCEPT !.stack = SetTop(d, "catch")] }

\* lines 227-237: retry or give up
CatchSucc(d) ==
  IF ~At(d, "catch") THEN {}
  ELSE IF Top(d).attempt < MAX_RETRIES THEN
    { [d EXCEPT !.stack = Recurse(d, "awaitCatchRetry")] }
  ELSE { Settle(d, FALSE) }

DLSucc(d, content) ==
  OpenSucc(d) \cup StreamSucc(d, content) \cup StabilizeSucc(d)
  \cup ValidateSucc(d) \cup CatchSucc(d)

\* line 180: the destination path is checked first
ValidDest(destPath) == destPath # "" /\ destPath # "."


(***************************************************************************)
(* SpecDownload: one top-level call of downloadFile, one step at a time.   *)
(***************************************************************************)
RemoteContents == {"corrupt"} \cup JsonContents

DestPaths == {"data/a.json", "."}

\* validateJsonSchema and getNested are not being called
ValIdle ==
  [jsonData |-> Undefined, path |-> <<>>, at |-> "idle", findings |-> <<>>,
   valid |-> TRUE, value |-> Undefined, given |-> Undefined,
   againFindings |-> <<>>, againValid |-> TRUE]

\* waitForStableFile is not being called
WaitIdle ==
  [sizes |-> <<>>, at |-> "idle", i |-> 0, prevSize |-> 0, polls |-> 0,
   stable |-> FALSE]

\* the preview watcher is not running
PreviewIdle ==
  [at |-> "off", isGenerating |-> FALSE, previewUrl |-> FALSE,
   bodies |-> <<>>, events |-> 0, lastEvent |-> "none", skipped |-> 0,
   ended |-> 0, reflected |-> -1]

\* no manifest file and no updateManifest call
ManifestIdle ==
  [file |-> [exists |-> FALSE, entries |-> <<>>], before |-> <<>>,
   calls |-> <<>>, clock |-> 0]

OthersIdle ==
  /\ wait = WaitIdle
  /\ preview = PreviewIdle
  /\ manifest = ManifestIdle

\* the first pass of a run: the local directory it starts from and whether
\* process.env.JSON_OUTPUT_FOLDER_ID names the data folder
RunStart(localDir, jsonToData) ==
  [pass |-> 1, before |-> localDir, jsonToData |-> jsonToData]

PassIdle ==
  /\ run = RunStart(<<>>, FALSE)
  /\ objs = <<>>
  /\ local = <<>>
  /\ force = FALSE
  /\ trashed = {}
  /\ pc = "idle"
  /\ driveFiles = <<>>
  /\ localFiles = <<>>
  /\ dedupeQueue = <<>>
  /\ files = <<>>
  /\ idx = 0
  /\ pdfPath = "null"
  /\ skippedFiles = <<>>
  /\ uploadedPDFs = <<>>
  /\ errors = <<>>
  /\ summary = 0
  /\ decisions = <<>>
  /\ calls = <<>>

InitDownload ==
  /\ remoteContent \in RemoteContents
  /\ \E c \in {"absent", "corrupt", "valid"} : dl = [DLIdle EXCEPT !.dest = c]
  /\ val = ValIdle
  /\ OthersIdle
  /\ PassIdle

\* the call is made: an invalid destination throws before anything is done
DLCall ==
  /\ dl.result = "idle"
  /\ \E destPath \in DestPaths :
       dl' = IF ValidDest(destPath) THEN DLStart(dl.dest)
             ELSE [dl EXCEPT !.result = "Failed"]
  /\ UNCHANGED <<remoteContent, passVars>>

DLOpen ==
  /\ dl' \in OpenSucc(dl)
  /\ UNCHANGED <<remoteContent, passVars>>

DLStream ==
  /\ dl' \in StreamSucc(dl, remoteContent)
  /\ UNCHANGED <<remoteContent, passVars>>

DLStabilize ==
  /\ dl' \in StabilizeSucc(dl)
  /\ UNCHANGED <<remoteContent, passVars>>

DLValidate ==
  /\ dl' \in ValidateSucc(dl)
  /\ UNCHANGED <<remoteContent, passVars>>

DLCatch ==
  /\ dl' \in CatchSucc(dl)
  /\ UNCHANGED <<remoteContent, passVars>>

NextDownload ==
  \/ DLCall
  \/ DLOpen
  \/ DLStream
  \/ DLStabilize
  \/ DLValidate
  \/ DLCatch

SpecDownload == InitDownload /\ [][NextDownload]_vars

(***************************************************************************)
(* Claims about downloadFile                                               *)
(***************************************************************************)

\* C1: one top-level call of downloadFile streams the remote object to the
\* destination at most 3 times, whatever the outcomes of the attempts.
C1_AtMostThreeStreams == dl.streams <= MAX_RETRIES

\* C2: when a top-level call resolves (Done), its most recent attempt had a
\* completed stream, a stabilized destination and a destination that parsed;
\* the call never resolves after a failed last parse.
C2_DoneImpliesParsed ==
  dl.result = "Done" =>
    /\ dl.last.streamed
    /\ dl.last.stable
    /\ dl.last.parsed
    /\ Parses(dl.dest)

\* a call that resolved only after a retry
C2_Witness == dl.result = "Done" /\ dl.streams >= 2 /\ dl.last.parsed

\* the same call where every step that can be taken is taken: a settled
\* promise continues, an emitted event is handled
FairSpecDownload == SpecDownload /\ WF_vars(NextDownload)

\* C21: every top-level call of downloadFile, once made, eventually settles
\* as Done or Failed; no stream error leaves it waiting for ever.
C21_CallTerminates ==
  (dl.result = "running") ~> (dl.result \in {"Done", "Failed"})

\* C23: when the invocation with attempt k < 3 awaits the retry of line 214
\* (its own download stabilized and did not parse) and the download of
\* attempt k + 1 has stabilized and parses, the call ends Done at once with
\* no further stream, having streamed no more than k + 1 times.
C23_CorruptThenParsed ==
  [][(/\ At(dl, "validating")
      /\ Len(dl.stack) >= 2
      /\ dl.stack[Len(dl.stack) - 1].at = "awaitParseRetry"
      /\ Parses(dl.dest))
       => /\ dl'.result = "Done"
          /\ dl'.streams = dl.streams
          /\ dl.streams <= Top(dl).attempt]_vars


(***************************************************************************)
(* downloadFile as one call: where the steps above can end.                *)
(***************************************************************************)
RECURSIVE DLReach(_, _, _)
DLReach(frontier, seen, content) ==
  IF frontier = {} THEN seen
  ELSE LET next == UNION {DLSucc(d, content) : d \in frontier} IN
    DLReach(next \ seen, seen \cup next, content)

\* the ways a call on an object of the given content ends: it resolves,
\* rejects or never settles, and leaves dest at the destination
DownloadOutcomes ==
  [content \in RemoteContents |->
     LET start == DLStart("absent")
         all   == DLReach({start}, {start}, content)
     IN  { [result |-> IF At(d, "hung") THEN "Hung" ELSE d.result, dest |-> d.dest] :
             d \in {e \in all : e.result \in {"Done", "Failed"} \/ At(e, "hung")} }]

(***************************************************************************)
(* The remote data folder and the local data directory.                    *)
(***************************************************************************)
MaxObjs == 2         \* remote objects in a pass
MaxDedupeObjs == 3   \* remote objects in the dedupe runs
MaxTime == 3         \* modification times are 1..MaxTime

Names == <<"a.json", "b.json">>          \* in readdirSync order
JsonNames == {Names[i] : i \in 1..Len(Names)}
OtherNames == {"notes"}                  \* a name without ".json"
JsonMime == "application/json"
Mimes == {JsonMime, "text/plain"}
Times == 1..MaxTime
Now == MaxTime + 1                       \* mtime of what the pass writes

\* name contains '.json' (Drive query) and f.endsWith(".json")
ContainsDotJson(name) == name \in JsonNames

RemoteObject(names, mimes, contents) ==
  [name : names, mimeType : mimes, modifiedTime : Times, content : contents]

Listings(n, names, mimes, contents) ==
  UNION {[1..k -> RemoteObject(names, mimes, contents)] : k \in 0..n}

Absent == [content |-> "absent", mtime |-> 0]

LocalFile ==
  {Absent} \cup [content : {"valid", "noName", "corrupt"}, mtime : {1}]

Ids == 1..Len(objs)

\* fs.existsSync(localPath)
Exists(name) == local[name].content # "absent"

(***************************************************************************)
(* listJsonFiles (the list query of lines 161-166)                         *)
(***************************************************************************)
\* fields: "files(id, name, mimeType, modifiedTime)"
ListedFields(i) ==
  [id |-> i, name |-> objs[i].name, mimeType |-> objs[i].mimeType,
   modifiedTime |-> objs[i].modifiedTime, localOnly |-> FALSE]

\* file.md5Checksum of a listed file
Md5Checksum(file) ==
  IF "md5Checksum" \in DOMAIN file THEN file.md5Checksum ELSE "undefined"

IdSeq == [i \in 1..Len(objs) |-> i]

InListQuery(i) == ContainsDotJson(objs[i].name) /\ i \notin trashed

listJsonFiles ==
  LET hits == SelectSeq(IdSeq, InListQuery) IN
    [k \in 1..Len(hits) |-> ListedFields(hits[k])]

(***************************************************************************)
(* dedupeDriveJsonFiles                                                    *)
(***************************************************************************)
InDedupeQuery(i) == objs[i].mimeType = JsonMime /\ i \notin trashed

\* the keys of grouped, in insertion order
RECURSIVE GroupNames(_)
GroupNames(listing) ==
  IF listing = <<>> THEN <<>>
  ELSE LET n == objs[Head(listing)].name
           Other(i) == objs[i].name # n
       IN <<n>> \o GroupNames(SelectSeq(Tail(listing), Other))

\* group.sort((a, b) => new Date(b.modifiedTime) - new Date(a.modifiedTime)):
\* newest first, equal times in their order in the group (the sort is stable)
\* Before with a fault injected: a and b exchanged, oldest first
BeforeAscending(a, b) == objs[a].modifiedTime <= objs[b].modifiedTime

Before(a, b) == objs[a].modifiedTime >= objs[b].modifiedTime

RECURSIVE Insert(_, _)
Insert(sorted, x) ==
  IF sorted = <<>> THEN <<x>>
  ELSE IF Before(Head(sorted), x) THEN <<Head(sorted)>> \o Insert(Tail(sorted), x)
  ELSE <<x>> \o sorted

RECURSIVE SortGroup(_)
SortGroup(group) ==
  IF group = <<>> THEN <<>>
  ELSE Insert(SortGroup(SubSeq(group, 1, Len(group) - 1)), group[Len(group)])

\* const [newest, ...duplicates] = group, for the groups of more than one
RECURSIVE DuplicatesOf(_, _)
DuplicatesOf(listing, names) ==
  IF names = <<>> THEN <<>>
  ELSE LET InGroup(i) == objs[i].name = Head(names)
           group == SelectSeq(listing, InGroup)
       IN (IF Len(group) > 1 THEN Tail(SortGroup(group)) ELSE <<>>)
          \o DuplicatesOf(listing, Tail(names))

DedupeTargets ==
  LET listing == SelectSeq(IdSeq, InDedupeQuery) IN
    DuplicatesOf(listing, GroupNames(listing))


(***************************************************************************)
(* processFiles: one pass.                                                 *)
(*   pc: "start" -> "listed" -> "dedupe" -> "loop" <-> "download",         *)
(*       "generate", "upload" -> "summary" -> "done";                      *)
(*       "aborted" after the catch of line 470, "hung" when an awaited     *)
(*       call never settles                                                *)
(***************************************************************************)
LocalOnlyEntry(name) ==
  [id |-> 0, name |-> name, mimeType |-> "", modifiedTime |-> 0, localOnly |-> TRUE]

\* lines 246-270: authenticate, listJsonFiles, the local-only names.
\* listJsonFiles throws when the output folder has no parent or no folder
\* named 'data' is found.
ListFiles ==
  /\ pc = "start"
  /\ \E authenticated, hasParent, dataFolder \in BOOLEAN :
       IF authenticated /\ hasParent /\ dataFolder THEN
         LET listed == listJsonFiles
             driveFileNames == {listed[k].name : k \in 1..Len(listed)}
             IsLocalOnly(n) ==
               Exists(n) /\ ContainsDotJson(n) /\ n \notin driveFileNames
         IN /\ driveFiles' = listed
            /\ localFiles' = SelectSeq(Names, IsLocalOnly)
            /\ pc' = "listed"
       ELSE
         /\ pc' = "aborted"
         /\ UNCHANGED <<driveFiles, localFiles>>
  /\ UNCHANGED <<dl, remoteContent, run, val, wait, preview, manifest, objs, local, force, trashed, dedupeQueue, files,
                 idx, pdfPath, skippedFiles, uploadedPDFs, errors, summary,
                 decisions, calls>>

\* lines 305-315 and 275-291: the data folder is looked up again, then
\* dedupeDriveJsonFiles lists the folder and groups the files by name
FindDuplicates ==
  /\ pc = "listed"
  /\ \E dataFolder \in BOOLEAN :
       IF dataFolder THEN
         /\ dedupeQueue' = DedupeTargets
         /\ pc' = "dedupe"
       ELSE
         /\ pc' = "aborted"
         /\ UNCHANGED dedupeQueue
  /\ UNCHANGED <<dl, remoteContent, run, val, wait, preview, manifest, objs, local, force, trashed, driveFiles,
                 localFiles, files, idx, pdfPath, skippedFiles, uploadedPDFs,
                 errors, summary, decisions, calls>>

\* lines 292-298: one drive.files.update({trashed: true}); a rejected
\* request leaves dedupeDriveJsonFiles and processFiles through line 470
TrashDuplicate ==
  /\ pc = "dedupe"
  /\ dedupeQueue # <<>>
  /\ \E updated \in BOOLEAN :
       IF updated THEN
         /\ trashed' = trashed \cup {Head(dedupeQueue)}
         /\ dedupeQueue' = Tail(dedupeQueue)
         /\ pc' = pc
       ELSE
         /\ pc' = "aborted"
         /\ UNCHANGED <<trashed, dedupeQueue>>
  /\ UNCHANGED <<dl, remoteContent, run, val, wait, preview, manifest, objs, local, force, driveFiles, localFiles,
                 files, idx, pdfPath, skippedFiles, uploadedPDFs, errors, summary,
                 decisions, calls>>

\* lines 318-342: driveFileMap, filteredLocalFiles, files
DriveMod(name) ==
  LET hits == {k \in 1..Len(driveFiles) : driveFiles[k].name = name} IN
    IF hits = {} THEN 0   \* undefined
    ELSE driveFiles[CHOOSE k \in hits : \A j \in hits : j <= k].modifiedTime

KeepLocal(name) ==
  ~(DriveMod(name) # 0 /\ Exists(name) /\ local[name].mtime <= DriveMod(name))

BuildFiles ==
  /\ pc = "dedupe"
  /\ dedupeQueue = <<>>
  /\ LET filtered == SelectSeq(localFiles, KeepLocal)
         all == driveFiles \o [k \in 1..Len(filtered) |-> LocalOnlyEntry(filtered[k])]
     IN /\ files' = all
        /\ idx' = 1
        /\ pc' = IF all = <<>> THEN "done" ELSE "loop"
  /\ UNCHANGED <<dl, remoteContent, run, val, wait, preview, manifest, objs, local, force, trashed, driveFiles,
                 localFiles, dedupeQueue, pdfPath, skippedFiles, uploadedPDFs,
                 errors, summary, decisions, calls>>


\* the loop body, for the file at idx
File == files[idx]

InLoop == pc = "loop" /\ idx <= Len(files)

\* path.basename(pdfPath): generatePDF names the PDF after the patient in the data
PdfName == [valid |-> "valid.pdf", noName |-> "noName.pdf", noTumors |-> "noTumors.pdf"]

\* a call made for the file at idx, what it was given and how it ended
Call(op, file, content, result) ==
  [op |-> op, idx |-> idx, id |-> file.id, name |-> file.name, content |-> content,
   result |-> result]

\* remoteHash && localHash && remoteHash === localHash
SkipByHash(remoteHash, localHash) ==
  remoteHash # "undefined" /\ localHash # "null" /\ remoteHash = localHash

\* SkipByTime with a fault injected: > for >=
SkipByTimeStrict(remoteHash, localModified, driveModified) ==
  remoteHash = "undefined" /\ localModified > driveModified

\* !remoteHash && localModified >= driveModified
SkipByTime(remoteHash, localModified, driveModified) ==
  remoteHash = "undefined" /\ localModified >= driveModified

\* lines 395-408: whether the file is skipped as unchanged
SkipUnchanged(file, forceUpload) ==
  LET localModified == local[file.name].mtime
      localHash == getFileHash(local[file.name].content)
      remoteHash == Md5Checksum(file)
  IN  /\ ~forceUpload
      /\ \/ SkipByHash(remoteHash, localHash)
         \/ SkipByTime(remoteHash, localModified, file.modifiedTime)

Decision(file, what) ==
  [idx |-> idx, id |-> file.id, decision |-> what,
   localContent |-> local[file.name].content, localMtime |-> local[file.name].mtime]

\* LocalCopyReadable with a fault injected: FORCE_UPLOAD passes the check
LocalCopyReadableOrForced(file) ==
  force \/ Parses(local[file.name].content)

\* lines 378-384: JSON.parse(fs.readFileSync(localPath)) does not throw
LocalCopyReadable(file) == Parses(local[file.name].content)

\* lines 368-409: a file from Drive is looked at
CheckRemote ==
  /\ InLoop
  /\ ~File.localOnly
  /\ IF File.name = "" THEN
       /\ skippedFiles' = Append(skippedFiles, "unknown")
       /\ idx' = idx + 1
       /\ UNCHANGED <<pc, errors, decisions>>
     ELSE IF ~LocalCopyReadable(File) THEN
       /\ errors' = Append(errors, [file |-> File.name, error |-> "Malformed JSON"])
       /\ decisions' = Append(decisions, Decision(File, "Error"))
       /\ idx' = idx + 1
       /\ UNCHANGED <<pc, skippedFiles>>
     ELSE IF Exists(File.name) /\ SkipUnchanged(File, force) THEN
       /\ skippedFiles' = Append(skippedFiles, File.name)
       /\ decisions' = Append(decisions, Decision(File, "SkipUnchanged"))
       /\ idx' = idx + 1
       /\ UNCHANGED <<pc, errors>>
     ELSE
       /\ decisions' = Append(decisions, Decision(File, "Download"))
       /\ pc' = "download"
       /\ UNCHANGED <<idx, skippedFiles, errors>>
  /\ UNCHANGED <<dl, remoteContent, run, val, wait, preview, manifest, objs, local, force, trashed, driveFiles,
                 localFiles, dedupeQueue, files, pdfPath, uploadedPDFs, summary,
                 calls>>

\* Download with a fault injected: a rejected downloadFile is not caught per
\* file and reaches the catch of line 470
DownloadUncaught ==
  /\ pc = "download"
  /\ \E out \in DownloadOutcomes[objs[File.id].content] :
       /\ calls' = Append(calls, Call("downloadFile", File, objs[File.id].content,
                                      out.result))
       /\ local' = [local EXCEPT ![File.name] = [content |-> out.dest, mtime |-> Now]]
       /\ pc' = CASE out.result = "Done" -> "generate"
                  [] out.result = "Failed" -> "aborted"
                  [] OTHER -> "hung"
  /\ UNCHANGED <<dl, remoteContent, run, val, wait, preview, manifest, objs, force, trashed, driveFiles,
                 localFiles, dedupeQueue, files, idx, errors, pdfPath, skippedFiles,
                 uploadedPDFs, summary, decisions>>

\* lines 412-420: await downloadFile(drive, file.id, localPath)
Download ==
  /\ pc = "download"
  /\ \E out \in DownloadOutcomes[objs[File.id].content] :
       /\ calls' = Append(calls, Call("downloadFile", File, objs[File.id].content,
                                      out.result))
       /\ local' = [local EXCEPT ![File.name] = [content |-> out.dest, mtime |-> Now]]
       /\ CASE out.result = "Done" ->
                 /\ pc' = "generate"
                 /\ UNCHANGED <<idx, errors>>
            [] out.result = "Failed" ->
                 /\ errors' = Append(errors, [file |-> File.name, error |-> "Failed to download"])
                 /\ idx' = idx + 1
                 /\ pc' = "loop"
            [] OTHER ->
                 /\ pc' = "hung"
                 /\ UNCHANGED <<idx, errors>>
  /\ UNCHANGED <<dl, remoteContent, run, val, wait, preview, manifest, objs, force, trashed, driveFiles, localFiles,
                 dedupeQueue, files, pdfPath, skippedFiles, uploadedPDFs, summary,
                 decisions>>

\* generatePDF(jsonPath): the path of the PDF, or null when anything fails
\* (its own catch returns null, it never throws)
generatePDF(content) ==
  IF Parses(content) THEN {PdfName[content], "null"} ELSE {"null"}

\* lines 423-431
Generate ==
  /\ pc = "generate"
  /\ pdfPath' \in generatePDF(local[File.name].content)
  /\ calls' = Append(calls, Call("generatePDF", File, local[File.name].content, pdfPath'))
  /\ pc' = "upload"
  /\ UNCHANGED <<dl, remoteContent, run, val, wait, preview, manifest, objs, local, force, trashed, driveFiles,
                 localFiles, dedupeQueue, files, idx, skippedFiles, uploadedPDFs,
                 errors, summary, decisions>>

\* lines 434-449
Upload ==
  /\ pc = "upload"
  /\ IF pdfPath # "null" THEN
       /\ \E uploaded \in BOOLEAN :
            /\ calls' = Append(calls, Call("uploadFileToDrive", File, pdfPath,
                                           IF uploaded THEN "uploaded" ELSE "failed"))
            /\ IF uploaded THEN
                 /\ uploadedPDFs' = Append(uploadedPDFs,
                                           [file |-> pdfPath, driveLink |-> "link"])
                 /\ UNCHANGED errors
               ELSE
                 /\ errors' = Append(errors, [file |-> pdfPath, error |-> "upload failed"])
                 /\ UNCHANGED uploadedPDFs
       /\ UNCHANGED skippedFiles
     ELSE
       /\ skippedFiles' = Append(skippedFiles, File.name)
       /\ UNCHANGED <<calls, uploadedPDFs, errors>>
  /\ idx' = idx + 1
  /\ pc' = "loop"
  /\ pdfPath' = "null"
  /\ UNCHANGED <<dl, remoteContent, run, val, wait, preview, manifest, objs, local, force, trashed, driveFiles,
                 localFiles, dedupeQueue, files, summary, decisions>>

\* what uploadJsonToDrive creates on Drive: a new object, modified now
UploadedJson(name, content) ==
  [name |-> name, mimeType |-> JsonMime, modifiedTime |-> Now, content |-> content]

UploadResult(ok) == IF ok THEN "uploaded" ELSE "failed"

\* lines 349-366: a local-only file.  path.basename(null) throws when
\* generatePDF returned null; every throw ends in the catch of line 362,
\* which logs it.  The JSON goes to process.env.JSON_OUTPUT_FOLDER_ID ||
\* folderId (line 360): it lands in the data folder when the env names it.
ProcessLocalOnly ==
  /\ InLoop
  /\ File.localOnly
  /\ LET content == local[File.name].content IN
       \E pdf \in generatePDF(content), pdfUploaded, jsonUploaded \in BOOLEAN :
         LET generate   == Call("generatePDF", File, content, pdf)
             uploadPdf  == Call("uploadFileToDrive", File, pdf, UploadResult(pdfUploaded))
             uploadJson == Call("uploadJsonToDrive", File, content,
                                UploadResult(jsonUploaded))
         IN IF pdf = "null" THEN
              /\ calls' = Append(calls, generate)
              /\ UNCHANGED <<uploadedPDFs, objs>>
            ELSE
              /\ uploadedPDFs' = Append(uploadedPDFs, [file |-> pdf, driveLink |-> "null"])
              /\ calls' = calls \o <<generate, uploadPdf>>
                          \o (IF pdfUploaded THEN <<uploadJson>> ELSE <<>>)
              /\ objs' = IF pdfUploaded /\ jsonUploaded /\ run.jsonToData
                         THEN Append(objs, UploadedJson(File.name, content))
                         ELSE objs
  /\ idx' = idx + 1
  /\ UNCHANGED <<dl, remoteContent, run, val, wait, preview, manifest, local, force, trashed, pc, driveFiles,
                 localFiles, dedupeQueue, files, pdfPath, skippedFiles, errors,
                 summary, decisions>>

\* lines 452-468
Summary ==
  /\ pc = "loop"
  /\ idx > Len(files)
  /\ summary' = summary + 1
  /\ pc' = "done"
  /\ UNCHANGED <<dl, remoteContent, run, val, wait, preview, manifest, objs, local, force, trashed, driveFiles,
                 localFiles, dedupeQueue, files, idx, pdfPath, skippedFiles,
                 uploadedPDFs, errors, decisions, calls>>

\* line 476 again: processFiles is run once more after a pass has returned,
\* FORCE_UPLOAD set or not; its lists start empty (lines 242-244), Drive and the
\* local directory are as the first pass left them
NextPass ==
  /\ pc = "done"
  /\ run.pass = 1
  /\ run' = [run EXCEPT !.pass = 2, !.before = local]
  /\ force' \in BOOLEAN
  /\ pc' = "start"
  /\ driveFiles' = <<>>
  /\ localFiles' = <<>>
  /\ dedupeQueue' = <<>>
  /\ files' = <<>>
  /\ idx' = 0
  /\ pdfPath' = "null"
  /\ skippedFiles' = <<>>
  /\ uploadedPDFs' = <<>>
  /\ errors' = <<>>
  /\ summary' = 0
  /\ decisions' = <<>>
  /\ calls' = <<>>
  /\ UNCHANGED <<dl, remoteContent, val, wait, preview, manifest, objs, local, trashed>>

PassStart ==
  /\ val = ValIdle
  /\ OthersIdle
  /\ dl = DLIdle
  /\ remoteContent = "valid"
  /\ trashed = {}
  /\ pc = "start"
  /\ driveFiles = <<>>
  /\ localFiles = <<>>
  /\ dedupeQueue = <<>>
  /\ files = <<>>
  /\ idx = 0
  /\ pdfPath = "null"
  /\ skippedFiles = <<>>
  /\ uploadedPDFs = <<>>
  /\ errors = <<>>
  /\ summary = 0
  /\ decisions = <<>>
  /\ calls = <<>>

\* The data folder, the local directory and the flag a pass starts from.
\* Remote objects here are application/json; the first one is named a.json
\* (a restriction of the inputs: the two names play the same part).
Init ==
  /\ objs \in Listings(MaxObjs, JsonNames, {JsonMime}, {"valid", "noName"})
  /\ objs # <<>> => objs[1].name = Names[1]
  /\ local \in [JsonNames -> LocalFile]
  /\ force \in BOOLEAN
  /\ run = RunStart(local, FALSE)
  /\ PassStart

Next ==
  \/ ListFiles
  \/ FindDuplicates
  \/ TrashDuplicate
  \/ BuildFiles
  \/ CheckRemote
  \/ Download
  \/ Generate
  \/ Upload
  \/ ProcessLocalOnly
  \/ Summary

Spec == Init /\ [][Next]_vars

\* the same pass where every step that can be taken is taken: an await
\* continues once its promise has settled
FairSpec == Spec /\ WF_vars(Next)

(***************************************************************************)
(* SpecTwice: a pass followed by a second pass without FORCE_UPLOAD, with  *)
(* nothing changed in between; JSON_OUTPUT_FOLDER_ID may name the data     *)
(* folder.                                                                 *)
(***************************************************************************)
InitTwice ==
  /\ objs \in Listings(MaxObjs, JsonNames, {JsonMime}, {"valid"})
  /\ objs # <<>> => objs[1].name = Names[1]
  /\ local \in [JsonNames -> LocalFile]
  /\ force \in BOOLEAN
  /\ \E jsonToData \in BOOLEAN : run = RunStart(local, jsonToData)
  /\ PassStart

NextTwice ==
  \/ Next
  \/ NextPass

SpecTwice == InitTwice /\ [][NextTwice]_vars

(***************************************************************************)
(* SpecDedupe: listing and deduplication alone, over data folders that     *)
(* also hold files of other MIME types and other names.                    *)
(***************************************************************************)
InitDedupe ==
  /\ objs \in Listings(MaxDedupeObjs, JsonNames \cup OtherNames, Mimes, {"valid"})
  /\ local = [n \in JsonNames |-> Absent]
  /\ force = FALSE
  /\ run = RunStart(local, FALSE)
  /\ PassStart

NextDedupe ==
  \/ ListFiles
  \/ FindDuplicates
  \/ TrashDuplicate

SpecDedupe == InitDedupe /\ [][NextDedupe]_vars


(***************************************************************************)
(* Claims about deduplication                                              *)
(***************************************************************************)
\* dedupeDriveJsonFiles has returned
DedupeCompleted == pc = "dedupe" /\ dedupeQueue = <<>>

SameNameIn(S, i) == {j \in S : objs[j].name = objs[i].name}

DistinctTimes(g) ==
  \A i, j \in g : i # j => objs[i].modifiedTime # objs[j].modifiedTime

IsNewestIn(g, i) == \A j \in g : objs[j].modifiedTime <= objs[i].modifiedTime

\* among the objects S: of each name shared by several objects with
\* distinct times exactly the newest is not trashed, and an object with a
\* name of its own is not trashed
OneSurvivorIn(S) ==
  \A i \in S :
    LET g == SameNameIn(S, i) IN
      /\ (Cardinality(g) > 1 /\ DistinctTimes(g)) =>
           \E s \in g : g \ trashed = {s} /\ IsNewestIn(g, s)
      /\ Cardinality(g) = 1 => i \notin trashed

JsonMimeIds == {i \in Ids : objs[i].mimeType = JsonMime}

C5_LoopSeesNoDuplicates ==
  \A k \in 1..Len(files) :
    ~files[k].localOnly =>
      /\ files[k].id \notin trashed
      /\ \A j \in 1..Len(files) :
           (j # k /\ ~files[j].localOnly) => files[j].name # files[k].name

\* C6: an object that shares its name with other remote objects is
\* downloaded, or is the source of a generated PDF, only if it is the most
\* recently modified of its name group.
C6_OnlyNewestIsUsed ==
  \A k \in 1..Len(calls) :
    LET c == calls[k] IN
      (c.op \in {"downloadFile", "generatePDF"} /\ c.id # 0
         /\ Cardinality(SameNameIn(Ids, c.id)) > 1)
        => IsNewestIn(SameNameIn(Ids, c.id), c.id)

(***************************************************************************)
(* Claims about the pass                                                   *)
(***************************************************************************)
\* C3: a record with a Required-tier or Structural-tier violation is never
\* handed to generatePDF, downloaded or local-only.
C3_InvalidNeverGenerated ==
  \A k \in 1..Len(calls) :
    (calls[k].op = "generatePDF" /\ Parses(calls[k].content))
      => validateJsonSchema(Parse(calls[k].content))

\* the digest Drive holds for the object, and what the code sees of it
RemoteDigest(id) == Md5[objs[id].content]

HadLocalCopy(d) == d.localContent # "absent"

\* C7: force unset, a local copy exists, the remote digest and the local
\* digest are equal: the object is skipped as unchanged, and nothing is
\* downloaded, generated or uploaded for it.
C7_EqualDigestsSkip ==
  \A k \in 1..Len(decisions) :
    LET d == decisions[k] IN
      (~force /\ HadLocalCopy(d) /\ RemoteDigest(d.id) = getFileHash(d.localContent))
        => /\ d.decision = "SkipUnchanged"
           /\ \A j \in 1..Len(calls) : calls[j].idx # d.idx

\* the digest comparison is not available: the listed file carries no
\* digest, or the local file could not be hashed
NoDigestComparison(d) ==
  \/ Md5Checksum(ListedFields(d.id)) = "undefined"
  \/ getFileHash(d.localContent) = "null"

ByTimestamps(d) ==
  d.decision = IF d.localMtime >= objs[d.id].modifiedTime
               THEN "SkipUnchanged" ELSE "Download"

\* C8 (as claimed): force unset, a local copy exists and the digest
\* comparison is not available: local mtime >= remote mtime gives
\* SkipUnchanged, anything else Download.
C8_TimestampFallback ==
  \A k \in 1..Len(decisions) :
    LET d == decisions[k] IN
      (~force /\ HadLocalCopy(d) /\ NoDigestComparison(d)) => ByTimestamps(d)

\* C8 (amended): the same for a local copy that parses as JSON; a local
\* copy that does not parse is an Error before any comparison is made.
C8_TimestampFallbackParsed ==
  \A k \in 1..Len(decisions) :
    LET d == decisions[k] IN
      /\ (~force /\ HadLocalCopy(d) /\ NoDigestComparison(d) /\ Parses(d.localContent))
           => ByTimestamps(d)
      /\ (HadLocalCopy(d) /\ ~Parses(d.localContent)) => d.decision = "Error"

\* a parsed local copy exactly as old as the remote object was skipped
C8_Witness ==
  \E k \in 1..Len(decisions) :
    LET d == decisions[k] IN
      /\ ~force
      /\ Parses(d.localContent)
      /\ d.localMtime = objs[d.id].modifiedTime
      /\ d.decision = "SkipUnchanged"

\* C9: with FORCE_UPLOAD set every remote object processed gets Download.
C9_ForceAlwaysDownloads ==
  force => \A k \in 1..Len(decisions) : decisions[k].decision = "Download"

\* C10: a remote object without a local copy gets Download.
C10_MissingLocalDownloads ==
  \A k \in 1..Len(decisions) :
    ~HadLocalCopy(decisions[k]) => decisions[k].decision = "Download"

\* the object at position k of files has been reached by the loop
Visited(k) ==
  \/ \E j \in 1..Len(decisions) : decisions[j].idx = k
  \/ \E j \in 1..Len(calls) : calls[j].idx = k

\* the loop is inside its body for the object at idx
InBody == pc \in {"download", "generate", "upload", "hung"}

\* C11: once the loop over files has started the pass is never aborted, the
\* objects are reached one by one in list order (those before idx have been
\* reached, those after it have not), whatever failed for an earlier object,
\* and the pass ends only after the last object.
C11_FailureNeverAborts ==
  files # <<>> =>
    /\ pc # "aborted"
    /\ idx \in 1..(Len(files) + 1)
    /\ \A k \in 1..Len(files) : Visited(k) <=> (k < idx \/ (k = idx /\ InBody))
    /\ \A i, j \in 1..Len(decisions) : i < j => decisions[i].idx < decisions[j].idx
    /\ \A i, j \in 1..Len(calls) : i < j => calls[i].idx <= calls[j].idx
    /\ pc = "done" => idx = Len(files) + 1

\* the download of the first of two objects failed for good, the second
\* object was processed and the pass printed its summary
C11_Witness ==
  /\ pc = "done"
  /\ summary = 1
  /\ Len(files) = 2
  /\ \E j \in 1..Len(calls) :
       calls[j].op = "downloadFile" /\ calls[j].idx = 1 /\ calls[j].result = "Failed"
  /\ \E j \in 1..Len(errors) : errors[j].error = "Failed to download"
  /\ Visited(2)

ErrorFiles == {errors[j].file : j \in 1..Len(errors)}

SkippedNames == {skippedFiles[j] : j \in 1..Len(skippedFiles)}

\* C12: at the end of a pass every record for which generatePDF failed
\* (returned no PDF) has an entry in errors and none in skippedFiles.
C12_GenerationFailureIsError ==
  pc = "done" =>
    \A k \in 1..Len(calls) :
      (calls[k].op = "generatePDF" /\ calls[k].result = "null")
        => /\ calls[k].name \in ErrorFiles
           /\ calls[k].name \notin SkippedNames

\* the pass ended in the catch of line 470 while duplicates were being trashed
TombstoneFailed == pc = "aborted" /\ dedupeQueue # <<>>

\* C13: a failed trashed request during deduplication does not abort the
\* pass; only a data folder that cannot be resolved does.
C13_TombstoneFailureDoesNotAbort == ~TombstoneFailed

\* C14: a pass that has at least one object to process ends by printing the
\* summary, once, and never prints it twice.
C14_PassEndsWithSummary ==
  /\ [](summary <= 1)
  /\ (files # <<>>) ~> (pc = "done" /\ summary = 1)

\* C15: in a second pass without FORCE_UPLOAD, nothing having changed since
\* the first, no object gets Download, downloadFile is not called and the
\* local directory stays as it was when the pass began.
C15_SecondPassDownloadsNothing ==
  (run.pass = 2 /\ ~force) =>
    /\ \A k \in 1..Len(decisions) : decisions[k].decision # "Download"
    /\ \A k \in 1..Len(calls) : calls[k].op # "downloadFile"
    /\ local = run.before

CallsFor(op, k) == {j \in 1..Len(calls) : calls[j].op = op /\ calls[j].idx = k}

\* C16: at the end of a pass, for every record whose PDF was generated
\* uploadFileToDrive was called exactly once and uploadJsonToDrive exactly
\* once, and every failed upload has an entry in errors.
C16_BothUploadsOnceAndRecorded ==
  pc = "done" =>
    \A k \in 1..Len(calls) :
      LET c == calls[k] IN
        /\ (c.op = "generatePDF" /\ c.result # "null")
             => /\ Cardinality(CallsFor("uploadFileToDrive", c.idx)) = 1
                /\ Cardinality(CallsFor("uploadJsonToDrive", c.idx)) = 1
        /\ (c.op \in {"uploadFileToDrive", "uploadJsonToDrive"} /\ c.result = "failed")
             => (c.name \in ErrorFiles \/ c.content \in ErrorFiles)


(***************************************************************************)
(* SpecValidate: one call of validateJsonSchema, or of getNested, on a     *)
(* record drawn from Records.                                              *)
(***************************************************************************)
\* obj with obj[key] = value; Undefined stands for "the key is not there"
Override(obj, key, value) ==
  IF value.t = "undefined"
  THEN Obj([k \in (DOMAIN obj.o) \ {key} |-> obj.o[k]])
  ELSE Obj([k \in (DOMAIN obj.o) \cup {key} |->
              IF k = key THEN value ELSE obj.o[k]])

\* an element that serves as a tumor and as a test
Element ==
  Obj([name |-> X, location |-> X, stage |-> X, grade |-> X,
       hormoneReceptorStatus |-> X, her2Status |-> X, date |-> X,
       explanation |-> X])

Elements ==
  {Element, Null, Override(Element, "name", Undefined),
   Override(Element, "name", Str(<<>>)), Override(Element, "date", Num(0))}

Scalars == {Undefined, Null, Str(<<>>), Num(0), Bool(FALSE), X}

FieldValues ==
  Scalars
  \cup {Arr(<<>>)}
  \cup {Arr(<<e>>) : e \in Elements}
  \cup {Arr(<<e1, e2>>) : e1, e2 \in Elements}
  \cup {Obj([goodNews |-> X, surgeon |-> Null]),
        Obj([goodNews |-> Str(<<>>), newOptions |-> Num(0), treatmentFocus |-> X,
             oncologist |-> X, surgeon |-> X, radiologist |-> Bool(FALSE)])}

SecondValues == {Null, Num(0), Arr(<<>>), Str(<<"1", "9", "8", "0">>)}

TopLevelFields == {tier1Required[i][1].key : i \in 1..Len(tier1Required)}

\* a record with something to report in every tier
MixedRecord ==
  Override(Override(Override(ValidRecord, "patientEmail", Null),
                    "patientDateOfBirth", X),
           "tumors", Arr(<<Null, Override(Element, "name", Undefined)>>))

\* the records validated: the complete record with one field replaced by
\* any of FieldValues and one by any of SecondValues, and three values that
\* are not objects
Records ==
  {Override(Override(ValidRecord, f1, v1), f2, v2) :
     f1 \in TopLevelFields, v1 \in FieldValues,
     f2 \in TopLevelFields \cup {"contactInfo"}, v2 \in SecondValues}
  \cup {Null, Arr(<<Element>>), Num(0), MixedRecord}

\* the paths resolved: those validateJsonSchema passes to getNested, and
\* paths with an index or with "[]" in them
Paths ==
  {tier1Required[i] : i \in 1..Len(tier1Required)}
  \cup {<<Key("name")>>, <<Key("whatThisMeans"), Key("goodNews")>>,
        <<Key("contactInfo"), Key("phone")>>, <<>>,
        <<Key("tumors"), Key("0"), Key("name")>>,
        <<Key("tumors"), Key("5")>>,
        <<All("tumors"), Key("1"), Key("name")>>,
        <<All("patientEmail")>>,
        <<Key("whatThisMeans"), All("items")>>,
        <<Key("contactInfo"), All("phones")>>}

ValInput(jsonData) ==
  [ValIdle EXCEPT !.jsonData = jsonData, !.given = jsonData, !.at = "input"]

InitValidate ==
  /\ val \in {ValInput(jsonData) : jsonData \in Records}
  /\ OthersIdle
  /\ dl = DLIdle
  /\ remoteContent = "valid"
  /\ PassIdle

\* validateJsonSchema(jsonData, filename)
Validate ==
  /\ val.at = "input"
  /\ val' = [val EXCEPT !.at = "validated",
                        !.findings = Findings(val.jsonData),
                        !.valid = validateJsonSchema(val.jsonData),
                        !.jsonData = RecordAfter(val.jsonData)]
  /\ UNCHANGED <<dl, remoteContent, run, wait, preview, manifest, objs, local, force, trashed, pc, driveFiles,
                 localFiles, dedupeQueue, files, idx, pdfPath, skippedFiles,
                 uploadedPDFs, errors, summary, decisions, calls>>

\* a second validateJsonSchema(jsonData, filename) on the record as the
\* first call left it
Revalidate ==
  /\ val.at = "validated"
  /\ val' = [val EXCEPT !.at = "revalidated",
                        !.againFindings = Findings(val.jsonData),
                        !.againValid = validateJsonSchema(val.jsonData),
                        !.jsonData = RecordAfter(val.jsonData)]
  /\ UNCHANGED <<dl, remoteContent, run, wait, preview, manifest, passState>>

\* getNested(obj, path)
Resolve ==
  /\ val.at = "input"
  /\ \E path \in Paths :
       val' = [val EXCEPT !.at = "resolved", !.path = path,
                          !.value = getNested(val.jsonData, path),
                          !.jsonData = RecordAfter(val.jsonData)]
  /\ UNCHANGED <<dl, remoteContent, run, wait, preview, manifest, objs, local, force, trashed, pc, driveFiles,
                 localFiles, dedupeQueue, files, idx, pdfPath, skippedFiles,
                 uploadedPDFs, errors, summary, decisions, calls>>

NextValidate ==
  \/ Validate
  \/ Revalidate
  \/ Resolve

SpecValidate == InitValidate /\ [][NextValidate]_vars

(***************************************************************************)
(* Claims about validation                                                 *)
(***************************************************************************)
\* the value a record holds under a key, read off the record itself
Held(record, key) ==
  IF record.t = "object" /\ key \in DOMAIN record.o THEN record.o[key] ELSE Undefined

\* absent (key missing), null or the empty string
AbsentNullOrEmpty(v) ==
  v.t \in {"undefined", "null"} \/ (v.t = "string" /\ Len(v.s) = 0)

\* the findings of the call for one entry of a tier list
FindingsFor(tier, field) ==
  LET Mine(f) == f.tier = tier /\ f.field = field IN SelectSeq(val.findings, Mine)

\* C17: for every record and every Required path, validateJsonSchema
\* reports the path (once) exactly when the record holds nothing, null or
\* the empty string under it; 0 and false are not reported.
C17_RequiredViolations ==
  val.at = "validated" =>
    \A i \in 1..Len(tier1Required) :
      LET field == tier1Required[i]
          held  == Held(val.jsonData, field[1].key)
      IN  /\ FindingsFor("required", field) =
               (IF AbsentNullOrEmpty(held)
                THEN <<Finding("required", field, -1)>> ELSE <<>>)
          /\ (held.t \in {"number", "boolean"}) => FindingsFor("required", field) = <<>>

\* a record with an empty patientLastName and patientEmail = 0 was
\* validated: the first is reported, the second is not
C17_Witness ==
  /\ val.at = "validated"
  /\ Held(val.jsonData, "patientLastName") = Str(<<>>)
  /\ Held(val.jsonData, "patientEmail") = Num(0)
  /\ FindingsFor("required", <<Key("patientLastName")>>) # <<>>
  /\ FindingsFor("required", <<Key("patientEmail")>>) = <<>>

\* the indices (from 0) of the elements that hold nothing, null or the
\* empty string under key, ascending
MissingIn(array, key) ==
  LET Lacks(i) == AbsentNullOrEmpty(Held(array.a[i], key)) IN
    SelectSeq([i \in 1..Len(array.a) |-> i], Lacks)

BracketFields ==
  {i \in 1..Len(tier3StructuralRequired) : tier3StructuralRequired[i][1].brackets}

\* C18: for every StructuralRequired path arrayField[].subPath: when the
\* record does not hold a non-empty array under arrayField, exactly one
\* finding is reported for the path and none per element; otherwise one
\* finding per element that holds nothing, null or the empty string under
\* subPath, and none for the other elements.
C18_StructuralArrayViolations ==
  val.at = "validated" =>
    \A i \in BracketFields :
      LET field == tier3StructuralRequired[i]
          array == Held(val.jsonData, field[1].key)
          found == FindingsFor("structural", field)
      IN  IF array.t = "array" /\ Len(array.a) > 0
          THEN LET missing == MissingIn(array, field[2].key) IN
                 found = [k \in 1..Len(missing) |->
                            Finding("structural", field, missing[k] - 1)]
          ELSE found = <<Finding("structural", field, -1)>>

\* a record whose second tumor has no name and whose testsNeeded is empty
\* was validated: tumors[].name is reported for index 1 only, and
\* testsNeeded[].name once, for the array
C18_Witness ==
  /\ val.at = "validated"
  /\ Held(val.jsonData, "tumors") = Arr(<<Element, Override(Element, "name", Undefined)>>)
  /\ Held(val.jsonData, "testsNeeded") = Arr(<<>>)
  /\ FindingsFor("structural", <<All("tumors"), Key("name")>>)
       = <<Finding("structural", <<All("tumors"), Key("name")>>, 1)>>
  /\ FindingsFor("structural", <<All("testsNeeded"), Key("name")>>)
       = <<Finding("structural", <<All("testsNeeded"), Key("name")>>, -1)>>

FailingTiers == {"required", "structural", "format"}

HasFinding(tiers) == \E k \in 1..Len(val.findings) : val.findings[k].tier \in tiers

\* C19: validateJsonSchema returns false exactly when it reported a
\* Required finding, a Structural finding or the date format; Recommended
\* findings alone leave the result true.
C19_FailsIffRequiredStructuralOrDate ==
  val.at = "validated" => (val.valid <=> ~HasFinding(FailingTiers))

\* a record with Recommended findings only was validated and passed
C19_Witness ==
  /\ val.at = "validated"
  /\ val.valid
  /\ HasFinding({"recommended"})
  /\ Held(val.jsonData, "contactInfo") = Null

\* C20: getNested never throws: it returns undefined whenever the context
\* is null or absent at a segment, a segment ending in [] included.
C20_GetNestedNeverThrows ==
  val.at = "resolved" => val.value.t # "TypeError"

\* C26: when the summary is printed, every object of the pass is in exactly
\* one of the generated, skipped and errored lists: their lengths add up to
\* the number of objects considered.
C26_EveryObjectCountedOnce ==
  (pc = "done" /\ summary = 1) =>
    Len(uploadedPDFs) + Len(skippedFiles) + Len(errors) = Len(files)

Unreadable == {"absent", "empty", "corrupt"}

TierOrder == <<"required", "structural", "recommended", "format">>

TierList ==
  [required |-> tier1Required, structural |-> tier3StructuralRequired,
   recommended |-> tier2Recommended,
   format |-> << <<Key("patientDateOfBirth")>> >>]

PositionIn(list, x) == CHOOSE i \in 1..Len(list) : list[i] = x

\* finding f is emitted before finding g in the fixed order
EmittedBefore(f, g) ==
  LET tf == PositionIn(TierOrder, f.tier)
      tg == PositionIn(TierOrder, g.tier)
      pf == PositionIn(TierList[f.tier], f.field)
      pg == PositionIn(TierList[g.tier], g.field)
  IN  \/ tf < tg
      \/ tf = tg /\ pf < pg
      \/ tf = tg /\ pf = pg /\ f.index < g.index

\* C24: the findings of one call come in the fixed order: Required in list
\* order, then StructuralRequired in list order with the elements of an
\* array by ascending index, then Recommended in list order, then the date
\* format.
C24_FindingsInFixedOrder ==
  val.at = "validated" =>
    \A j, k \in 1..Len(val.findings) :
      j < k => EmittedBefore(val.findings[j], val.findings[k])

\* a call that reported in all four tiers and two elements of one array
C24_Witness ==
  /\ val.at = "validated"
  /\ \A t \in {"required", "structural", "recommended", "format"} : HasFinding({t})
  /\ FindingsFor("structural", <<All("tumors"), Key("name")>>)
       = <<Finding("structural", <<All("tumors"), Key("name")>>, 0),
           Finding("structural", <<All("tumors"), Key("name")>>, 1)>>

Shapes == {"zero", "grow", "flip"}

FinalSizes == {0, 1, 3}

\* the file behaves as its shape says for the first n polls and has its
\* final size from then on
SizesOf(shape, n, final) ==
  [k \in 1..retries |->
     IF k > n THEN final
     ELSE CASE shape = "zero" -> 0
            [] shape = "grow" -> 3 + k
            [] OTHER          -> 1 + (k % 2)]

WaitInput ==
  {[WaitIdle EXCEPT !.sizes = SizesOf(shape, n, final), !.at = "polling"] :
     shape \in Shapes, n \in 0..retries, final \in FinalSizes}

InitWait ==
  /\ wait \in WaitInput
  /\ preview = PreviewIdle
  /\ manifest = ManifestIdle
  /\ val = ValIdle
  /\ dl = DLIdle
  /\ remoteContent = "valid"
  /\ PassIdle

\* lines 13-18: one statSync and the test of the size against the last one
WaitPoll ==
  /\ wait.at = "polling"
  /\ LET size == wait.sizes[wait.i + 1] IN
       IF size > 0 /\ size = wait.prevSize
         THEN wait' = [wait EXCEPT !.at = "returned", !.stable = TRUE,
                                   !.polls = wait.polls + 1]
         ELSE wait' = [wait EXCEPT !.at = "sleeping", !.prevSize = size,
                                   !.polls = wait.polls + 1]
  /\ UNCHANGED <<dl, remoteContent, run, val, preview, manifest, passState>>

\* lines 12, 19 and 21: the timer fires, i++, and the loop goes on or the
\* function throws
WaitSleep ==
  /\ wait.at = "sleeping"
  /\ wait' = [wait EXCEPT !.i = wait.i + 1,
                          !.at = IF wait.i + 1 < retries THEN "polling"
                                 ELSE "thrown"]
  /\ UNCHANGED <<dl, remoteContent, run, val, preview, manifest, passState>>

NextWait ==
  \/ WaitPoll
  \/ WaitSleep

SpecWait == InitWait /\ [][NextWait]_vars

\* two consecutive polls k - 1 and k reported the same nonzero size
EqualNonzeroPair(sizes, k) == sizes[k] > 0 /\ sizes[k] = sizes[k - 1]

WaitEnded == wait.at \in {"returned", "thrown"}

\* C22: waitForStableFile returns only at a poll that reports the same
\* nonzero size as the poll before it, makes at most 25 polls, throws
\* 'never stabilized' after 25 polls without such a pair, and never returns
\* for a file whose size stays 0; downloadFile's use of it gives the same
\* answer.
C22_StableOnlyOnEqualNonzeroPair ==
  /\ wait.polls <= retries
  /\ wait.at = "returned" =>
       /\ wait.polls >= 2
       /\ EqualNonzeroPair(wait.sizes, wait.polls)
       /\ \A k \in 2..(wait.polls - 1) : ~EqualNonzeroPair(wait.sizes, k)
  /\ wait.at = "thrown" =>
       /\ wait.polls = retries
       /\ \A k \in 2..retries : ~EqualNonzeroPair(wait.sizes, k)
  /\ WaitEnded => (wait.stable <=> wait.at = "returned")
  /\ WaitEnded => (waitForStableFile(wait.sizes) <=> wait.at = "returned")
  /\ (WaitEnded /\ \A k \in 1..retries : wait.sizes[k] = 0) => wait.at = "thrown"

\* the file kept changing until the last two polls, which agreed
C22_Witness ==
  /\ wait.at = "returned"
  /\ wait.polls = retries
  /\ \A k \in 2..(retries - 1) : wait.sizes[k] # wait.sizes[k - 1]

(***************************************************************************)
(* The live-preview watcher (part_000).                                    *)
(*                                                                         *)
(* preview.at is "starting" (init awaits startServer and the sleep),       *)
(* "watching" (init has called generatePreview) or "exited"                *)
(* (process.exit(1)).  bodies are the executions of generatePreview        *)
(* between line 240 and the finally: where each one waits and the number   *)
(* of file events that had arrived when it last looked (when it was        *)
(* entered, then when it had read the data and the template).              *)
(* events counts the change and add events delivered, skipped the calls    *)
(* that returned at line 237, ended the executions that reached the        *)
(* finally, reflected the number of events the last ended execution had    *)
(* seen when it read its inputs.                                           *)
(***************************************************************************)
MaxEvents == 3

PreviewStart == [PreviewIdle EXCEPT !.at = "starting"]

\* generatePreview with a fault injected: no test of isGenerating
SkipsNever(p) == FALSE

\* lines 236-238
Skips(p) == p.isGenerating

\* lines 235-247: a call of generatePreview up to its first await
generatePreview(p) ==
  IF Skips(p) THEN [p EXCEPT !.skipped = p.skipped + 1]
  ELSE [p EXCEPT !.isGenerating = TRUE,
                 !.bodies = Append(p.bodies, [at |-> "readData", inputs |-> p.events])]

\* the awaits of the body, in order; the last is made only when no preview
\* was opened yet
AfterAwait(p, pos) ==
  CASE pos = "readData"     -> "readTemplate"
    [] pos = "readTemplate" -> "writeHtml"
    [] pos = "writeHtml"    -> "renderPdf"
    [] pos = "renderPdf"    -> IF p.previewUrl THEN "finally" ELSE "open"
    [] OTHER                -> "finally"

Without(seq, i) == [k \in 1..(Len(seq) - 1) |-> IF k < i THEN seq[k] ELSE seq[k + 1]]

\* lines 375-377: the execution i leaves through the finally
Finally(p, i) ==
  [p EXCEPT !.isGenerating = FALSE, !.bodies = Without(p.bodies, i),
            !.ended = p.ended + 1, !.reflected = p.bodies[i].inputs]

InitPreview ==
  /\ preview = PreviewStart
  /\ wait = WaitIdle
  /\ manifest = ManifestIdle
  /\ val = ValIdle
  /\ dl = DLIdle
  /\ remoteContent = "valid"
  /\ PassIdle

\* lines 398-401: chokidar reports a changed template or stylesheet
FileChanged ==
  /\ preview.at \in {"starting", "watching"}
  /\ preview.events < MaxEvents
  /\ preview' = generatePreview([preview EXCEPT !.events = preview.events + 1,
                                                !.lastEvent = "change"])
  /\ UNCHANGED <<dl, remoteContent, run, val, wait, manifest, passState>>

\* lines 402-405: chokidar reports a file, new or found at start-up
\* (ignoreInitial is false)
FileAdded ==
  /\ preview.at \in {"starting", "watching"}
  /\ preview.events < MaxEvents
  /\ preview' = generatePreview([preview EXCEPT !.events = preview.events + 1,
                                                !.lastEvent = "add"])
  /\ UNCHANGED <<dl, remoteContent, run, val, wait, manifest, passState>>

\* lines 412-417: the server listens, the second has passed, init calls
\* generatePreview
InitGenerate ==
  /\ preview.at = "starting"
  /\ preview' = generatePreview([preview EXCEPT !.at = "watching"])
  /\ UNCHANGED <<dl, remoteContent, run, val, wait, manifest, passState>>

\* lines 418-421: startServer rejected
InitFailed ==
  /\ preview.at = "starting"
  /\ preview' = [preview EXCEPT !.at = "exited"]
  /\ UNCHANGED <<dl, remoteContent, run, val, wait, manifest, passState>>

\* an awaited promise of an execution resolves and the body runs to its
\* next await or, through line 366, to the finally
BodyResolved ==
  /\ preview.at \in {"starting", "watching"}
  /\ \E i \in 1..Len(preview.bodies) :
       LET pos  == preview.bodies[i].at
           next == AfterAwait(preview, pos)
           read == [preview EXCEPT
                      !.bodies[i].inputs =
                         IF pos = "readTemplate" THEN preview.events
                         ELSE preview.bodies[i].inputs,
                      !.previewUrl = preview.previewUrl \/ next = "open"]
       IN  preview' = IF next = "finally" THEN Finally(read, i)
                      ELSE [read EXCEPT !.bodies[i].at = next]
  /\ UNCHANGED <<dl, remoteContent, run, val, wait, manifest, passState>>

\* an awaited promise rejects, or JSON.parse or the template throws: the
\* catch of line 370 logs it and the finally runs
BodyFailed ==
  /\ preview.at \in {"starting", "watching"}
  /\ \E i \in 1..Len(preview.bodies) : preview' = Finally(preview, i)
  /\ UNCHANGED <<dl, remoteContent, run, val, wait, manifest, passState>>

NextPreview ==
  \/ FileChanged
  \/ FileAdded
  \/ InitGenerate
  \/ InitFailed
  \/ BodyResolved
  \/ BodyFailed

SpecPreview == InitPreview /\ [][NextPreview]_vars

\* timers fire and promises settle; nobody has to edit a file, and the
\* server need not fail
FairSpecPreview ==
  /\ SpecPreview
  /\ WF_vars(InitGenerate)
  /\ WF_vars(BodyResolved \/ BodyFailed)

\* C28: at most one execution of the body of generatePreview is in progress
\* at any time, whatever the order of change events, add events and the
\* initial start, and isGenerating is false whenever no execution is in
\* progress, the last one having succeeded or failed.
C28_OneGenerationAtATime ==
  /\ Len(preview.bodies) <= 1
  /\ preview.isGenerating <=> preview.bodies # <<>>

\* events were skipped during a generation, it ended and the flag is down
C28_Witness ==
  /\ preview.skipped >= 2
  /\ preview.ended >= 1
  /\ preview.bodies = <<>>
  /\ ~preview.isGenerating

\* C29: every file event is eventually reflected in the preview: from some
\* point on, the last execution that ended was entered, or read its
\* inputs, after the last event.
C29_EveryChangeReflected ==
  <>[](preview.at = "exited" \/ preview.reflected = preview.events)

(***************************************************************************)
(* updateManifest(filename)                                                *)
(*                                                                         *)
(* manifest.file is data/manifest.json: whether it exists and the object   *)
(* it holds, a function from names to time stamps (0 for an entry that was *)
(* there before).  manifest.calls[n] is the call updateManifest(n): where  *)
(* it waits ("idle" before the call, "pathExists", "readFile",             *)
(* "outputJson", "done"), its constant now and its local object manifest.  *)
(* clock is the time of the last call made, before the entries the file    *)
(* held at the start.                                                      *)
(***************************************************************************)
ManifestNames == {"a.json", "b.json", "c.json"}

NoEntries == [n \in {} |-> 0]

OldEntries(names) == [n \in names |-> 0]

ManifestFiles ==
  {[exists |-> FALSE, entries |-> NoEntries]}
  \cup {[exists |-> TRUE, entries |-> OldEntries(names)] :
          names \in {{}, {"old.json"}, {"a.json", "old.json"}}}

ManifestStart(file) ==
  [file |-> file, before |-> file.entries,
   calls |-> [n \in ManifestNames |-> [at |-> "idle", now |-> 0, manifest |-> NoEntries]],
   clock |-> 0]

\* line 17: manifest[filename] = now
SetEntry(object, filename, now) ==
  [k \in (DOMAIN object) \cup {filename} |-> IF k = filename THEN now ELSE object[k]]

InitManifest ==
  /\ manifest \in {ManifestStart(file) : file \in ManifestFiles}
  /\ wait = WaitIdle
  /\ preview = PreviewIdle
  /\ val = ValIdle
  /\ dl = DLIdle
  /\ remoteContent = "valid"
  /\ PassIdle

\* lines 11-13: the call takes the time and asks whether the file exists
ManifestCall ==
  /\ \E n \in ManifestNames :
       /\ manifest.calls[n].at = "idle"
       /\ manifest' = [manifest EXCEPT !.clock = manifest.clock + 1,
                                       !.calls[n].at = "pathExists",
                                       !.calls[n].now = manifest.clock + 1]
  /\ UNCHANGED <<dl, remoteContent, run, val, wait, preview, passState>>

\* lines 13-19 when the file does not exist: {} gets the entry and is
\* handed to outputJson; otherwise the file is being read
ManifestPathExists ==
  /\ \E n \in ManifestNames :
       /\ manifest.calls[n].at = "pathExists"
       /\ manifest' =
            IF manifest.file.exists
            THEN [manifest EXCEPT !.calls[n].at = "readFile"]
            ELSE [manifest EXCEPT
                    !.calls[n].at = "outputJson",
                    !.calls[n].manifest = SetEntry(NoEntries, n, manifest.calls[n].now)]
  /\ UNCHANGED <<dl, remoteContent, run, val, wait, preview, passState>>

\* lines 14-19: what was read gets the entry and is handed to outputJson
ManifestReadFile ==
  /\ \E n \in ManifestNames :
       /\ manifest.calls[n].at = "readFile"
       /\ manifest' =
            [manifest EXCEPT
               !.calls[n].at = "outputJson",
               !.calls[n].manifest =
                  SetEntry(manifest.file.entries, n, manifest.calls[n].now)]
  /\ UNCHANGED <<dl, remoteContent, run, val, wait, preview, passState>>

\* lines 19-20: the file now holds the call's object
ManifestOutputJson ==
  /\ \E n \in ManifestNames :
       /\ manifest.calls[n].at = "outputJson"
       /\ manifest' =
            [manifest EXCEPT
               !.calls[n].at = "done",
               !.file = [exists |-> TRUE, entries |-> manifest.calls[n].manifest]]
  /\ UNCHANGED <<dl, remoteContent, run, val, wait, preview, passState>>

NextManifest ==
  \/ ManifestCall
  \/ ManifestPathExists
  \/ ManifestReadFile
  \/ ManifestOutputJson

SpecManifest == InitManifest /\ [][NextManifest]_vars

ManifestQuiet ==
  \A n \in DOMAIN manifest.calls : manifest.calls[n].at \in {"idle", "done"}

\* C30: whenever no updateManifest call is in progress, the file holds an
\* entry with the call's time for every name a call was completed for, and
\* every entry that was there before and was not updated.
C30_AllCompletedNamesPresent ==
  ManifestQuiet =>
    /\ \A n \in DOMAIN manifest.calls :
         manifest.calls[n].at = "done" =>
           /\ n \in DOMAIN manifest.file.entries
           /\ manifest.file.entries[n] = manifest.calls[n].now
    /\ \A k \in DOMAIN manifest.before :
         /\ k \in DOMAIN manifest.file.entries
         /\ (k \notin DOMAIN manifest.calls \/ manifest.calls[k].at = "idle")
              => manifest.file.entries[k] = manifest.before[k]

=============================================================================
